---- MODULE Spec2Model ----
(***************************************************************************)
(* OpenShiftOAuthenticator (src/oauthenticator/openshift.py): the OAuth    *)
(* code-for-token exchange with its one certificate-bundle retry, the      *)
(* user-info lookup, the group policy and refresh_user.                    *)
(*                                                                         *)
(* A task is one coroutine of the hub running authenticate or refresh_user *)
(* on the single authenticator object.  A coroutine gives up control only  *)
(* at an await of an HTTP fetch, so an action is the code between two      *)
(* awaits.  The token endpoint answers each request with a token, a        *)
(* CurlError or another HTTP error, chosen freely.  The user-info endpoint *)
(* answers from the cluster's state: its status for the bearer token and   *)
(* the groups on the OpenShift User object.                                *)
(***************************************************************************)
EXTENDS Integers, Sequences, FiniteSets, TLC

\* Number of hub coroutines that may call into the authenticator.
NumTasks == 2

Tasks == 1..NumTasks

\* Group names; "" is the empty-string name, the one falsy str of Python.
Groups == {"", "a", "b"}

\* Access tokens the token endpoint may issue or a user's auth state may hold.
Tokens == {"t1", "t2"}

\* Answers of the user-info endpoint: 200, or an HTTPError with that code.
StatusCodes == {200, 401, 403, 500}

\* ocp_user['metadata']['name'] of the one user of the cluster.
username == "alice"

VARIABLES
    use_ca_certs_for_token_request, \* the mutable certificate-preference flag
    allowed_groups,                 \* configuration, read-only after startup
    admin_groups,                   \* configuration, read-only after startup
    openshift_groups,               \* cluster: groups on the User object
    userdata_status,                \* cluster: status of the user-info endpoint
    pc,                             \* task -> where its coroutine is suspended
    op,                             \* task -> the method it runs
    token_requests,                 \* task -> token requests built (req), in order
    token_responses,                \* task -> their outcomes, in order
    stored_token,                   \* task -> auth_state['access_token'] (refresh)
    userinfo_requests,              \* task -> bearer tokens of user-info requests
    group_info,                     \* task -> locals of _add_openshift_group_info
    result,                         \* task -> what the coroutine returned or raised
    stopped,                        \* task -> user.stop() was awaited
    tls_failures_odd                \* history: parity of first requests that
                                    \* ended in CurlError

env_vars == <<allowed_groups, admin_groups, openshift_groups, userdata_status>>
task_vars == <<pc, op, token_requests, token_responses, stored_token,
               userinfo_requests, group_info, result, stopped>>
vars == <<use_ca_certs_for_token_request, env_vars, task_vars, tls_failures_odd>>

----------------------------------------------------------------------------
\* Python values

None == [py |-> "None"]

Pending == [kind |-> "pending"]

Return(value) == [kind |-> "return", value |-> value]

Raise(exc) == [kind |-> "raise", exc |-> exc]

CurlError == [type |-> "CurlError"]

HTTPError(code) == [type |-> "HTTPError", code |-> code]

\* bool(x) of a str.
Truthy(x) == x /= ""

\* The builtin any(iterable): some element is truthy.
any(iterable) == \E x \in iterable : Truthy(x)

----------------------------------------------------------------------------
\* Pure parts of the authenticator

user_in_groups(user_groups, groups) == any(user_groups \cap groups)

\* The ca_certs argument of the token request: which configured bundle is
\* passed.  The two attributes are told apart by name.
token_request(flag) ==
    [method |-> "POST",
     ca_certs |-> IF flag THEN "ca_certs" ELSE "system_ca_certs"]

\* The local names bound in _add_openshift_group_info; is_admin is bound
\* only when admin_groups is non-empty.
add_openshift_group_info_locals(user_info) ==
    LET user_groups == user_info.auth_state.openshift_user.groups
    IN  [user_groups |-> user_groups,
         user_in_allowed_group |-> user_in_groups(user_groups, allowed_groups)]
        @@ (IF admin_groups /= {}
            THEN [is_admin |-> user_in_groups(user_groups, admin_groups)]
            ELSE <<>>)

\* Variant: the 'admin' entry is set only for an admin.
add_openshift_group_info_no_admin_key(user_info) ==
    LET l == add_openshift_group_info_locals(user_info)
    IN  IF admin_groups /= {} /\ (l.is_admin \/ l.user_in_allowed_group)
        THEN IF l.is_admin THEN [admin |-> TRUE] @@ user_info ELSE user_info
        ELSE IF l.user_in_allowed_group THEN user_info ELSE None

add_openshift_group_info(user_info) ==
    LET l == add_openshift_group_info_locals(user_info)
    IN  IF admin_groups /= {} /\ (l.is_admin \/ l.user_in_allowed_group)
        THEN [admin |-> l.is_admin] @@ user_info
        ELSE IF l.user_in_allowed_group THEN user_info ELSE None

\* The user object the endpoint serves and the record built from it.
ocp_user == [metadata |-> [name |-> username], groups |-> openshift_groups]

new_user_info(access_token) ==
    [name |-> ocp_user.metadata.name,
     auth_state |-> [access_token |-> access_token, openshift_user |-> ocp_user]]

policy_configured == allowed_groups /= {} \/ admin_groups /= {}

\* Variant: a 403 is swallowed like a 401.
get_openshift_user_info_403_is_none(access_token) ==
    IF userdata_status /= 200
    THEN IF userdata_status \in {401, 403}
         THEN Return(None)
         ELSE Raise(HTTPError(userdata_status))
    ELSE Return(IF policy_configured
                THEN add_openshift_group_info(new_user_info(access_token))
                ELSE new_user_info(access_token))

\* What _get_openshift_user_info does once its fetch is answered.
get_openshift_user_info(access_token) ==
    IF userdata_status /= 200
    THEN IF userdata_status = 401
         THEN Return(None)
         ELSE Raise(HTTPError(userdata_status))
    ELSE Return(IF policy_configured
                THEN add_openshift_group_info(new_user_info(access_token))
                ELSE new_user_info(access_token))

\* The locals _add_openshift_group_info leaves, <<>> when it is not called.
get_openshift_user_info_locals(access_token) ==
    IF userdata_status = 200 /\ policy_configured
    THEN add_openshift_group_info_locals(new_user_info(access_token))
    ELSE <<>>

----------------------------------------------------------------------------
\* Initial states

TaskInit ==
    /\ pc = [t \in Tasks |-> "idle"]
    /\ op = [t \in Tasks |-> "none"]
    /\ token_requests = [t \in Tasks |-> <<>>]
    /\ token_responses = [t \in Tasks |-> <<>>]
    /\ stored_token = [t \in Tasks |-> "none"]
    /\ userinfo_requests = [t \in Tasks |-> <<>>]
    /\ group_info = [t \in Tasks |-> <<>>]
    /\ result = [t \in Tasks |-> Pending]
    /\ stopped = [t \in Tasks |-> FALSE]

\* The class attribute is computed from the trait object ca_certs, which is
\* truthy, so the flag starts True whatever the configuration.
FlagInit ==
    /\ use_ca_certs_for_token_request = TRUE
    /\ tls_failures_odd = FALSE

Init ==
    /\ FlagInit
    /\ allowed_groups \in SUBSET Groups
    /\ admin_groups \in SUBSET Groups
    /\ openshift_groups \in SUBSET Groups
    /\ userdata_status \in StatusCodes
    /\ TaskInit

\* A user in no group, with allowed_groups unset (the default) or set, and
\* any answer of the user-info endpoint.
InitConcurrent ==
    /\ FlagInit
    /\ allowed_groups \in {{}, {"a"}}
    /\ admin_groups = {}
    /\ openshift_groups = {}
    /\ userdata_status \in StatusCodes
    /\ TaskInit

----------------------------------------------------------------------------
\* authenticate

\* Lines 98-125: build the first token request and await its fetch.
authenticate_begin(t) ==
    /\ pc[t] = "idle"
    /\ pc' = [pc EXCEPT ![t] = "token_fetch"]
    /\ op' = [op EXCEPT ![t] = "authenticate"]
    /\ token_requests' =
           [token_requests EXCEPT
               ![t] = <<token_request(use_ca_certs_for_token_request)>>]
    /\ UNCHANGED <<use_ca_certs_for_token_request, env_vars, token_responses,
                   stored_token, userinfo_requests, group_info, result,
                   stopped, tls_failures_odd>>

\* Variant: the handler retries without toggling the flag.
except_CurlError_keeps_flag(t) ==
    /\ pc[t] = "token_fetch"
    /\ token_responses' = [token_responses EXCEPT ![t] = Append(@, "CurlError")]
    /\ tls_failures_odd' = ~tls_failures_odd
    /\ use_ca_certs_for_token_request' = use_ca_certs_for_token_request
    /\ token_requests' =
           [token_requests EXCEPT
               ![t] = Append(@, token_request(use_ca_certs_for_token_request'))]
    /\ pc' = [pc EXCEPT ![t] = "token_retry"]
    /\ UNCHANGED <<env_vars, op, stored_token, userinfo_requests, group_info,
                   result, stopped>>

\* Variant: the retry takes the other bundle than this invocation's first
\* request, whatever the shared flag is by then.
except_CurlError_from_own_request(t) ==
    /\ pc[t] = "token_fetch"
    /\ token_responses' = [token_responses EXCEPT ![t] = Append(@, "CurlError")]
    /\ tls_failures_odd' = ~tls_failures_odd
    /\ use_ca_certs_for_token_request' = ~use_ca_certs_for_token_request
    /\ token_requests' =
           [token_requests EXCEPT
               ![t] = Append(@, token_request(@[1].ca_certs /= "ca_certs"))]
    /\ pc' = [pc EXCEPT ![t] = "token_retry"]
    /\ UNCHANGED <<env_vars, op, stored_token, userinfo_requests, group_info,
                   result, stopped>>

\* Variant: the handler also catches the CurlError of a retry.
except_CurlError_retries_again(t) ==
    /\ pc[t] \in {"token_fetch", "token_retry"}
    /\ token_responses' = [token_responses EXCEPT ![t] = Append(@, "CurlError")]
    /\ tls_failures_odd' = (tls_failures_odd /= (pc[t] = "token_fetch"))
    /\ use_ca_certs_for_token_request' = ~use_ca_certs_for_token_request
    /\ token_requests' =
           [token_requests EXCEPT
               ![t] = Append(@, token_request(use_ca_certs_for_token_request'))]
    /\ pc' = [pc EXCEPT ![t] = "token_retry"]
    /\ UNCHANGED <<env_vars, op, stored_token, userinfo_requests, group_info,
                   result, stopped>>

\* Lines 125-131: the first fetch raises CurlError; the handler toggles the
\* flag, builds the request again and awaits the second fetch.
except_CurlError(t) ==
    /\ pc[t] = "token_fetch"
    /\ token_responses' = [token_responses EXCEPT ![t] = Append(@, "CurlError")]
    /\ tls_failures_odd' = ~tls_failures_odd
    /\ use_ca_certs_for_token_request' = ~use_ca_certs_for_token_request
    /\ token_requests' =
           [token_requests EXCEPT
               ![t] = Append(@, token_request(use_ca_certs_for_token_request'))]
    /\ pc' = [pc EXCEPT ![t] = "token_retry"]
    /\ UNCHANGED <<env_vars, op, stored_token, userinfo_requests, group_info,
                   result, stopped>>

\* Exceptions of a token fetch that no handler of authenticate catches.
Uncaught(t) ==
    IF pc[t] = "token_fetch" THEN {HTTPError(400)}
    ELSE IF pc[t] = "token_retry" THEN {CurlError, HTTPError(400)}
    ELSE {}

\* Lines 125, 131: a token fetch raises and the exception leaves authenticate.
authenticate_raises(t) ==
    \E exc \in Uncaught(t) :
        /\ token_responses' = [token_responses EXCEPT ![t] = Append(@, exc.type)]
        /\ result' = [result EXCEPT ![t] = Raise(exc)]
        /\ pc' = [pc EXCEPT ![t] = "done"]
        /\ UNCHANGED <<use_ca_certs_for_token_request, env_vars, op,
                       token_requests, stored_token, userinfo_requests,
                       group_info, stopped, tls_failures_odd>>

\* Variant: a successful retry puts the flag back.
token_fetched_restores_flag(t) ==
    /\ pc[t] \in {"token_fetch", "token_retry"}
    /\ \E access_token \in Tokens :
           userinfo_requests' = [userinfo_requests EXCEPT ![t] = <<access_token>>]
    /\ token_responses' = [token_responses EXCEPT ![t] = Append(@, "ok")]
    /\ pc' = [pc EXCEPT ![t] = "user_fetch"]
    /\ use_ca_certs_for_token_request' =
           (use_ca_certs_for_token_request /= (pc[t] = "token_retry"))
    /\ UNCHANGED <<env_vars, op, token_requests, stored_token, group_info,
                   result, stopped, tls_failures_odd>>

\* Lines 125/131, 133-134, 138-157: a token fetch is answered with a token;
\* the user-info request is built with it and its fetch awaited.
token_fetched(t) ==
    /\ pc[t] \in {"token_fetch", "token_retry"}
    /\ \E access_token \in Tokens :
           userinfo_requests' = [userinfo_requests EXCEPT ![t] = <<access_token>>]
    /\ token_responses' = [token_responses EXCEPT ![t] = Append(@, "ok")]
    /\ pc' = [pc EXCEPT ![t] = "user_fetch"]
    /\ UNCHANGED <<use_ca_certs_for_token_request, env_vars, op, token_requests,
                   stored_token, group_info, result, stopped, tls_failures_odd>>

\* Lines 157-174, 136: the user-info fetch is answered; authenticate returns
\* or raises what _get_openshift_user_info does.
authenticate_user_fetched(t) ==
    /\ pc[t] = "user_fetch"
    /\ op[t] = "authenticate"
    /\ result' = [result EXCEPT
                     ![t] = get_openshift_user_info(userinfo_requests[t][1])]
    /\ group_info' = [group_info EXCEPT
                     ![t] = get_openshift_user_info_locals(userinfo_requests[t][1])]
    /\ pc' = [pc EXCEPT ![t] = "done"]
    /\ UNCHANGED <<use_ca_certs_for_token_request, env_vars, op, token_requests,
                   token_responses, stored_token, userinfo_requests, stopped,
                   tls_failures_odd>>

----------------------------------------------------------------------------
\* refresh_user

\* Lines 199-203, 138-157: read the stored token, build the user-info request
\* with it and await its fetch.
refresh_user_begin(t) ==
    /\ pc[t] = "idle"
    /\ \E access_token \in Tokens :
           /\ stored_token' = [stored_token EXCEPT ![t] = access_token]
           /\ userinfo_requests' =
                  [userinfo_requests EXCEPT ![t] = <<access_token>>]
    /\ pc' = [pc EXCEPT ![t] = "user_fetch"]
    /\ op' = [op EXCEPT ![t] = "refresh_user"]
    /\ UNCHANGED <<use_ca_certs_for_token_request, env_vars, token_requests,
                   token_responses, group_info, result, stopped,
                   tls_failures_odd>>

\* "not user_info" of a returned value: None is falsy, a record with its
\* 'name' and 'auth_state' entries is truthy.
\* Variant: a failed lookup counts as no user.
not_user_info_or_raised(outcome) == outcome.kind = "raise" \/ outcome.value = None

not_user_info(outcome) == outcome.kind = "return" /\ outcome.value = None

\* Lines 157-174, 203-207: the user-info fetch is answered; user.stop() is
\* awaited when the lookup returned no user, and the lookup's value returned.
refresh_user_user_fetched(t) ==
    LET outcome == get_openshift_user_info(userinfo_requests[t][1])
    IN  /\ pc[t] = "user_fetch"
        /\ op[t] = "refresh_user"
        /\ result' = [result EXCEPT ![t] = outcome]
        /\ group_info' = [group_info EXCEPT
                         ![t] = get_openshift_user_info_locals(userinfo_requests[t][1])]
        /\ stopped' = [stopped EXCEPT ![t] = not_user_info(outcome)]
        /\ pc' = [pc EXCEPT ![t] = "done"]
        /\ UNCHANGED <<use_ca_certs_for_token_request, env_vars, op,
                       token_requests, token_responses, stored_token,
                       userinfo_requests, tls_failures_odd>>

----------------------------------------------------------------------------
\* The hub and the cluster

\* The hub takes the coroutine's outcome; its frame is gone.
hub_takes_result(t) ==
    /\ pc[t] = "done"
    /\ pc' = [pc EXCEPT ![t] = "idle"]
    /\ op' = [op EXCEPT ![t] = "none"]
    /\ token_requests' = [token_requests EXCEPT ![t] = <<>>]
    /\ token_responses' = [token_responses EXCEPT ![t] = <<>>]
    /\ stored_token' = [stored_token EXCEPT ![t] = "none"]
    /\ userinfo_requests' = [userinfo_requests EXCEPT ![t] = <<>>]
    /\ group_info' = [group_info EXCEPT ![t] = <<>>]
    /\ result' = [result EXCEPT ![t] = Pending]
    /\ stopped' = [stopped EXCEPT ![t] = FALSE]
    /\ UNCHANGED <<use_ca_certs_for_token_request, env_vars, tls_failures_odd>>

AllIdle == \A t \in Tasks : pc[t] = "idle"

OthersIdle(t) == \A u \in Tasks \ {t} : pc[u] = "idle"

\* Between invocations the cluster changes: the user joins or leaves a
\* group, or the endpoint's answer for the user's tokens changes.  A lookup
\* reads the cluster once, when its fetch is answered.
cluster_changes ==
    /\ AllIdle
    /\ \/ /\ \E g \in Groups :
                openshift_groups' = IF g \in openshift_groups
                                    THEN openshift_groups \ {g}
                                    ELSE openshift_groups \cup {g}
          /\ UNCHANGED userdata_status
       \/ /\ userdata_status' \in StatusCodes \ {userdata_status}
          /\ UNCHANGED openshift_groups
    /\ UNCHANGED <<use_ca_certs_for_token_request, allowed_groups, admin_groups,
                   task_vars, tls_failures_odd>>

\* An invocation of the hub that starts when no other one is running.
authenticate_alone(t) == OthersIdle(t) /\ authenticate_begin(t)

refresh_user_alone(t) == OthersIdle(t) /\ refresh_user_begin(t)

TaskStep(t) ==
    \/ except_CurlError(t)
    \/ authenticate_raises(t)
    \/ token_fetched(t)
    \/ authenticate_user_fetched(t)
    \/ refresh_user_user_fetched(t)
    \/ hub_takes_result(t)

\* Invocations one at a time, on any configuration and any cluster state.
Next ==
    \/ \E t \in Tasks : authenticate_alone(t) \/ refresh_user_alone(t) \/ TaskStep(t)
    \/ cluster_changes

Spec == Init /\ [][Next]_vars

\* Invocations interleaved at their awaits.
NextConcurrent ==
    \E t \in Tasks : authenticate_begin(t) \/ refresh_user_begin(t) \/ TaskStep(t)

SpecConcurrent == InitConcurrent /\ [][NextConcurrent]_vars

----------------------------------------------------------------------------
\* Properties

\* The user-info fetch of task t was answered and the coroutine has ended.
LookupDone(t) == pc[t] = "done" /\ userinfo_requests[t] /= <<>>

\* The endpoint resolved the user (a successful response).
Resolved(t) == LookupDone(t) /\ userdata_status = 200

IsUserRecord(outcome) == outcome.kind = "return" /\ outcome.value /= None

Intersect(a, b) == (a \cap b) /= {}

\* C1 (as claimed): a resolved user gets a record iff no group set is
\* configured, or admin_groups is configured and the user's groups intersect
\* admin_groups or allowed_groups, or only allowed_groups is configured and
\* the user's groups intersect it; otherwise the lookup returns None; it
\* never raises.
C1_Admission ==
    \A t \in Tasks :
        Resolved(t) =>
            /\ result[t].kind = "return"
            /\ result[t].value /= None <=>
                  \/ allowed_groups = {} /\ admin_groups = {}
                  \/ /\ admin_groups /= {}
                     /\ \/ Intersect(openshift_groups, admin_groups)
                        \/ Intersect(openshift_groups, allowed_groups)
                  \/ /\ admin_groups = {}
                     /\ allowed_groups /= {}
                     /\ Intersect(openshift_groups, allowed_groups)

\* C2 (as claimed): a user whose groups intersect admin_groups gets a record
\* with admin true, and the 'admin' entry of any returned record is true iff
\* the user's groups intersect admin_groups.
C2_AdminFlag ==
    \A t \in Tasks :
        Resolved(t) =>
            /\ (op[t] = "authenticate"
                  /\ Intersect(openshift_groups, admin_groups)) =>
                  /\ IsUserRecord(result[t])
                  /\ "admin" \in DOMAIN result[t].value
                  /\ result[t].value.admin = TRUE
            /\ (IsUserRecord(result[t]) /\ "admin" \in DOMAIN result[t].value) =>
                  (result[t].value.admin <=>
                      Intersect(openshift_groups, admin_groups))

\* The user's groups intersect allowed_groups and not admin_groups.
AllowedOnly == /\ Intersect(openshift_groups, allowed_groups)
               /\ ~Intersect(openshift_groups, admin_groups)

\* C3 (as claimed): authenticate of a user whose groups intersect
\* allowed_groups and not admin_groups returns a record, and the record has no 'admin' entry, whether
\* admin_groups is empty or not.
C3_NoAdminFlag ==
    \A t \in Tasks :
        (Resolved(t) /\ op[t] = "authenticate" /\ AllowedOnly) =>
            /\ IsUserRecord(result[t])
            /\ "admin" \notin DOMAIN result[t].value

\* C3 (amended): for a user whose groups intersect allowed_groups and not
\* admin_groups authenticate returns without raising; it returns a record iff
\* a group common with allowed_groups has a non-empty name; the record has
\* no 'admin' entry when admin_groups is empty and the entry admin = False
\* when admin_groups is non-empty.
C3_AdminFalseWhenConfigured ==
    \A t \in Tasks :
        (Resolved(t) /\ op[t] = "authenticate" /\ AllowedOnly) =>
            /\ result[t].kind = "return"
            /\ result[t].value /= None <=>
                  (\E g \in openshift_groups \cap allowed_groups : g /= "")
            /\ result[t].value /= None =>
                  IF admin_groups = {}
                  THEN "admin" \notin DOMAIN result[t].value
                  ELSE /\ "admin" \in DOMAIN result[t].value
                       /\ result[t].value.admin = FALSE

\* C3 witness: allowed-only user admitted under a configured admin_groups.
C3_Witness ==
    \E t \in Tasks :
        /\ Resolved(t) /\ AllowedOnly /\ admin_groups /= {}
        /\ op[t] = "authenticate"
        /\ IsUserRecord(result[t])

\* C4: in both callers a 401 of the user-info endpoint gives None and no
\* exception; any other HTTP error leaves the caller as that exception and
\* no record is produced.
C4_Lookup401 ==
    \A t \in Tasks :
        LookupDone(t) =>
            /\ userdata_status = 401 => result[t] = Return(None)
            /\ userdata_status \notin {200, 401} =>
                  result[t] = Raise(HTTPError(userdata_status))

\* C4 witness: authenticate ended with None on a 401.
C4_Witness ==
    \E t \in Tasks :
        /\ LookupDone(t) /\ op[t] = "authenticate"
        /\ userdata_status = 401
        /\ result[t] = Return(None)

\* C5: an authenticate sends at most two token requests, the second iff the
\* first ended in CurlError; after CurlError then success the user lookup is
\* made; a failed retry leaves authenticate as that failure with no lookup;
\* another failure of the first request leaves it with no retry.
C5_OneRetry ==
    \A t \in Tasks :
        LET reqs == token_requests[t]
            resps == token_responses[t]
        IN  op[t] = "authenticate" =>
                /\ Len(reqs) \in {1, 2}
                /\ Len(resps) <= Len(reqs)
                /\ Len(reqs) = 2 <=> (resps /= <<>> /\ resps[1] = "CurlError")
                /\ resps = <<"CurlError", "ok">> =>
                      /\ pc[t] \in {"user_fetch", "done"}
                      /\ Len(userinfo_requests[t]) = 1
                /\ (Len(resps) = 2 /\ resps[2] /= "ok") =>
                      /\ pc[t] = "done"
                      /\ result[t].kind = "raise"
                      /\ result[t].exc.type = resps[2]
                      /\ userinfo_requests[t] = <<>>
                /\ (resps /= <<>> /\ resps[1] = "HTTPError") =>
                      /\ pc[t] = "done"
                      /\ result[t] = Raise(HTTPError(400))
                      /\ Len(reqs) = 1
                      /\ userinfo_requests[t] = <<>>

\* C5 witness: CurlError, then the retry succeeded and the lookup is under way.
C5_Witness ==
    \E t \in Tasks :
        /\ token_responses[t] = <<"CurlError", "ok">>
        /\ pc[t] = "user_fetch"

\* C6: with no other authenticate running, the retry is built with the
\* other bundle than the first request of the same invocation.
C6_RetryOtherBundle ==
    \A t \in Tasks :
        Len(token_requests[t]) = 2 =>
            token_requests[t][2].ca_certs /= token_requests[t][1].ca_certs

\* C6 witness: an invocation that started with the flag False retried with
\* ca_certs.
C6_Witness ==
    \E t \in Tasks :
        /\ pc[t] = "token_retry"
        /\ token_requests[t][1].ca_certs = "system_ca_certs"
        /\ token_requests[t][2].ca_certs = "ca_certs"

\* C7: the retry is built from the shared flag as it is when the handler
\* runs: it repeats the invocation's own first bundle exactly when the flag
\* no longer selects that bundle, another invocation having toggled it.
C7_RetryFollowsSharedFlag ==
    [][\A t \in Tasks :
          (pc[t] = "token_fetch" /\ pc'[t] = "token_retry") =>
              ((token_requests'[t][2].ca_certs = token_requests[t][1].ca_certs)
               <=> (token_request(use_ca_certs_for_token_request).ca_certs
                      /= token_requests[t][1].ca_certs))]_vars

\* C7 witness: two interleaved authenticates whose first requests both
\* ended in CurlError, one retrying with the bundle of its own first request.
C7_Witness ==
    \E t, u \in Tasks :
        /\ t /= u
        /\ pc[t] = "token_retry" /\ pc[u] = "token_retry"
        /\ token_requests[t][2].ca_certs = token_requests[t][1].ca_certs

\* C8: refresh_user looks the user up with the stored token; user.stop() is
\* awaited iff the lookup returned None, which happens on a 401 or a denial
\* by the group policy; a record is returned with that token and no stop; a
\* non-401 error leaves refresh_user as the exception with no stop.
C8_RefreshStop ==
    \A t \in Tasks :
        (pc[t] = "done" /\ op[t] = "refresh_user") =>
            /\ userinfo_requests[t] = <<stored_token[t]>>
            /\ stopped[t] <=> result[t] = Return(None)
            /\ result[t] = Return(None) =>
                  \/ userdata_status = 401
                  \/ userdata_status = 200 /\ policy_configured
            /\ IsUserRecord(result[t]) =>
                  /\ userdata_status = 200
                  /\ result[t].value.auth_state.access_token = stored_token[t]
            /\ userdata_status \notin {200, 401} =>
                  result[t] = Raise(HTTPError(userdata_status))
            /\ userdata_status = 401 => result[t] = Return(None)

\* C8 witness: a refresh of a resolved user whom the group policy denies.
C8_Witness ==
    \E t \in Tasks :
        /\ pc[t] = "done" /\ op[t] = "refresh_user"
        /\ userdata_status = 200
        /\ stopped[t]

\* C9 (as claimed): user_in_groups is true iff the two sets intersect; read
\* off the values _add_openshift_group_info computed with it.
C9_UserInGroups ==
    \A t \in Tasks :
        group_info[t] /= <<>> =>
            /\ group_info[t].user_in_allowed_group <=>
                  Intersect(group_info[t].user_groups, allowed_groups)
            /\ "is_admin" \in DOMAIN group_info[t] =>
                  (group_info[t].is_admin <=>
                      Intersect(group_info[t].user_groups, admin_groups))

\* C10: the flag changes only in the step in which the first token request
\* of an authenticate ends in CurlError, where it is toggled; it is never
\* restored, so it is the initial True toggled once per such login, and the
\* first request of a login uses the bundle that parity selects.
C10_FlagFrame ==
    /\ [](use_ca_certs_for_token_request = ~tls_failures_odd)
    /\ [][(use_ca_certs_for_token_request' /= use_ca_certs_for_token_request)
            <=> (\E t \in Tasks :
                    /\ op[t] = "authenticate"
                    /\ pc[t] = "token_fetch"
                    /\ token_responses'[t] = <<"CurlError">>)]_vars
    /\ [][\A t \in Tasks :
            (pc[t] = "idle" /\ pc'[t] = "token_fetch") =>
                token_requests'[t][1].ca_certs =
                    IF tls_failures_odd THEN "system_ca_certs" ELSE "ca_certs"]_vars

\* C10 witness: a login after a TLS-failing one sends its first request
\* with system_ca_certs.
C10_Witness ==
    \E t \in Tasks :
        /\ pc[t] = "token_fetch"
        /\ token_requests[t][1].ca_certs = "system_ca_certs"

====
